---- MODULE Spec2Model ----
(***************************************************************************)
(* Model of bin/fetch_reddit.py: main() as a sequential state machine, one *)
(* action per statement that can be observed from outside (exit, write,    *)
(* call to the external data source), and render_comment() as an operator  *)
(* over character sequences.                                               *)
(*                                                                         *)
(* Python values are tagged records: [k |-> "absent"] is an attribute the  *)
(* object does not have, [k |-> "none"] is None, [k |-> "str", v |-> s] a  *)
(* str (s a sequence of one-character strings), [k |-> "int", v |-> n] an  *)
(* int.                                                                    *)
(***************************************************************************)
EXTENDS Integers, Sequences, FiniteSets, TLC

\* ------------------------------------------------------------------ bounds
MaxEnvLen == 2       \* longest REDDIT_COMMENT_LIMIT text drawn
MaxComments == 3     \* longest flattened comment sequence drawn
MaxFrames == 2       \* most stack frames in an interpreter traceback
MaxBodyLen == 3      \* longest comment body drawn for render_comment
MaxDepth == 2        \* deepest comment drawn for render_comment

\* ----------------------------------------------------------- Python values
PyAbsent == [k |-> "absent"]
PyNone == [k |-> "none"]
PyStr(s) == [k |-> "str", v |-> s]
PyInt(n) == [k |-> "int", v |-> n]

\* bool(v) for the value kinds the script tests.
Truthy(v) ==
  CASE v.k = "absent" -> FALSE
    [] v.k = "none" -> FALSE
    [] v.k = "str" -> v.v # <<>>
    [] v.k = "int" -> v.v # 0

\* getattr(obj, name, default)
getattr(obj, name, default) ==
  IF obj[name].k = "absent" THEN default ELSE obj[name]

\* os.environ.get(name): None when the variable is not set.
environ_get(env, name) == env[name]

DigitChars == <<"0", "1", "2", "3", "4", "5", "6", "7", "8", "9">>

IsDigit(c) == \E d \in 1..10 : DigitChars[d] = c

DigitValue(c) == (CHOOSE d \in 1..10 : DigitChars[d] = c) - 1

RECURSIVE NatToStr(_)
NatToStr(n) ==
  IF n < 10 THEN <<DigitChars[n + 1]>>
  ELSE NatToStr(n \div 10) \o <<DigitChars[(n % 10) + 1]>>

\* str(n) of an int: decimal digits, "-" in front of a negative number.
IntToStr(n) == IF n < 0 THEN <<"-">> \o NatToStr(-n) ELSE NatToStr(n)

\* What an f-string replacement field {v} produces.
PyFormat(v) ==
  CASE v.k = "str" -> v.v
    [] v.k = "int" -> IntToStr(v.v)
    [] v.k = "none" -> <<"N", "o", "n", "e">>

\* s * n for a str s: the empty string when n <= 0.
RECURSIVE Repeat(_, _)
Repeat(s, n) == IF n <= 0 THEN <<>> ELSE s \o Repeat(s, n - 1)

\* sep.join(parts)
RECURSIVE Join(_, _)
Join(sep, parts) ==
  IF parts = <<>> THEN <<>>
  ELSE IF Len(parts) = 1 THEN parts[1]
  ELSE parts[1] \o sep \o Join(sep, Tail(parts))

\* ------------------------------------------------------------ int(text)
RECURSIVE LStrip(_)
LStrip(s) == IF s # <<>> /\ Head(s) = " " THEN LStrip(Tail(s)) ELSE s

RECURSIVE RStrip(_)
RStrip(s) ==
  IF s # <<>> /\ s[Len(s)] = " " THEN RStrip(SubSeq(s, 1, Len(s) - 1)) ELSE s

Strip(s) == LStrip(RStrip(s))

\* Digits with single underscores between them, at least one digit.
ValidDigits(s) ==
  /\ s # <<>>
  /\ IsDigit(s[1])
  /\ IsDigit(s[Len(s)])
  /\ \A j \in 1..Len(s) : IsDigit(s[j]) \/ s[j] = "_"
  /\ \A j \in 1..(Len(s) - 1) : ~(s[j] = "_" /\ s[j + 1] = "_")

RECURSIVE DigitsValue(_, _)
DigitsValue(s, acc) ==
  IF s = <<>> THEN acc
  ELSE IF Head(s) = "_" THEN DigitsValue(Tail(s), acc)
  ELSE DigitsValue(Tail(s), 10 * acc + DigitValue(Head(s)))

\* int(text) in base 10: [ok |-> FALSE] stands for ValueError.
int(text) ==
  LET t == Strip(text)
      signed == t # <<>> /\ Head(t) \in {"+", "-"}
      digits == IF signed THEN Tail(t) ELSE t
  IN IF ValidDigits(digits)
     THEN [ok |-> TRUE,
           val |-> IF signed /\ Head(t) = "-"
                   THEN 0 - DigitsValue(digits, 0)
                   ELSE DigitsValue(digits, 0)]
     ELSE [ok |-> FALSE, val |-> 0]

\* Lines 23-29: comment_limit stays None unless the text is non-empty and
\* int() accepts it.
ParseCommentLimit(comment_limit_env) ==
  IF Truthy(comment_limit_env)
  THEN IF int(comment_limit_env.v).ok
       THEN PyInt(int(comment_limit_env.v).val)
       ELSE PyNone
  ELSE PyNone

\* ------------------------------------------------------- render_comment
\* Line 71: f"u/{comment.author}" if comment.author else "[deleted]"
author_label(comment) ==
  IF Truthy(comment.author)
  THEN <<"u", "/">> \o PyFormat(comment.author)
  ELSE <<"[", "d", "e", "l", "e", "t", "e", "d", "]">>

\* Lines 73-75 with "if score:" in place of "if score is not None:".
header_parts_truthy(author, score) ==
  IF Truthy(score)
  THEN <<author,
         <<"(", "s", "c", "o", "r", "e", ":", " ">> \o PyFormat(score) \o <<")">>>>
  ELSE <<author>>

\* Lines 73-75: the author label, then "(score: N)" unless score is None.
header_parts(author, score) ==
  IF score # PyNone
  THEN <<author,
         <<"(", "s", "c", "o", "r", "e", ":", " ">> \o PyFormat(score) \o <<")">>>>
  ELSE <<author>>

\* Line 77 with one space per level in place of two.
indent_one_space(comment) ==
  Repeat(<<" ">>, getattr(comment, "depth", PyInt(0)).v)

\* Line 77: "  " * getattr(comment, "depth", 0)
indent_of(comment) ==
  Repeat(<<" ", " ">>, getattr(comment, "depth", PyInt(0)).v)

\* Lines 70-80.  comment.author is read directly; score, depth and body go
\* through getattr with the defaults None, 0 and "".
render_comment(comment) ==
  LET author == author_label(comment)
      score == getattr(comment, "score", PyNone)
      indent == indent_of(comment)
      header == Join(<<" ">>, header_parts(author, score))
      body == getattr(comment, "body", PyStr(<<>>))
  IN indent \o header \o <<"\n">> \o indent \o PyFormat(body)

\* ------------------------------------------------------------------ inputs
\* All character sequences over alphabet of length at most n.
RECURSIVE Texts(_, _)
Texts(alphabet, n) ==
  IF n = 0 THEN {<<>>}
  ELSE LET shorter == Texts(alphabet, n - 1)
       IN shorter \cup {<<c>> \o t : c \in alphabet, t \in {u \in shorter : Len(u) = n - 1}}

\* All sequences over pool of length at most n.
RECURSIVE Seqs(_, _)
Seqs(pool, n) ==
  IF n = 0 THEN {<<>>}
  ELSE LET shorter == Seqs(pool, n - 1)
       IN shorter \cup {<<c>> \o t : c \in pool, t \in {u \in shorter : Len(u) = n - 1}}

EnvAlphabet == {"0", "1", "2", "-", "+", " ", "x"}

\* Values of REDDIT_COMMENT_LIMIT: not set, or any text over EnvAlphabet.
LimitEnvValues == {PyNone} \cup {PyStr(t) : t \in Texts(EnvAlphabet, MaxEnvLen)}

\* Values of REDDIT_CLIENT_ID / REDDIT_CLIENT_SECRET: not set, empty, set.
CredentialValues == {PyNone, PyStr(<<>>), PyStr(<<"k">>)}

\* Values of REDDIT_COMMENT_SORT: not set (the value is handed to the
\* external source uninterpreted, so one value stands for all).
SortEnvValues == {PyNone}

\* The nodes the flattened comment list is drawn from: two comments that
\* have a body, a MoreComments placeholder (no body attribute), a comment
\* whose body is None and one whose body is the empty string.
Alice ==
  [author |-> PyStr(<<"a", "l">>), score |-> PyInt(5), depth |-> PyInt(0),
   body |-> PyStr(<<"h", "i">>)]

Reply ==
  [author |-> PyNone, score |-> PyAbsent, depth |-> PyInt(1),
   body |-> PyStr(<<"o", "k">>)]

MoreNode ==
  [author |-> PyAbsent, score |-> PyAbsent, depth |-> PyAbsent,
   body |-> PyAbsent]

NoneBody ==
  [author |-> PyStr(<<"b">>), score |-> PyInt(0), depth |-> PyInt(1),
   body |-> PyNone]

EmptyBody ==
  [author |-> PyNone, score |-> PyInt(-3), depth |-> PyInt(0),
   body |-> PyStr(<<>>)]

CommentPool == {Alice, Reply, MoreNode, NoneBody, EmptyBody}

CommentLists == Seqs(CommentPool, MaxComments)

\* The submission the external source returns: the title is set, the
\* selftext is empty and the author is deleted, so that both branches of
\* the "or" of lines 45-46 and the else branch of line 63 are taken.
SubmissionPool ==
  {[title |-> PyStr(<<"H", "i">>), selftext |-> PyStr(<<>>),
    permalink |-> PyStr(<<"/", "r">>), score |-> PyInt(7),
    subreddit |-> PyStr(<<"s">>), author |-> PyNone,
    num_comments |-> PyInt(2)]}

\* ------------------------------------------------------------------- state
VARIABLES
  praw_installed,     \* whether "import praw" finds the module
  argc,               \* len(sys.argv)
  environ,            \* os.environ, the four variables main() reads
  pc,                 \* line main() is at; "exit" once the process has ended
  comment_sort,       \* local of main(), line 22
  comment_limit_env,  \* local of main(), line 23
  comment_limit,      \* local of main(), lines 24-29
  reddit,             \* TRUE once praw.Reddit(...) has been constructed
  submission,         \* the submission object: None before line 42
  submission_title,   \* local of main(), line 45
  submission_selftext, \* local of main(), line 46
  listing,            \* the list submission.comments.list() returned
  i,                  \* position of the for loop in listing
  comments,           \* local of main(), line 47: the rendered comments
  taken,              \* history: for each entry of comments, its index in listing
  payload,            \* local of main(), line 56
  stdout,             \* lines written to standard output
  stderr,             \* lines written to standard error
  exit_code,          \* None while running, then the process exit status
  rc_pc,              \* render_comment called alone: "call" or "return"
  rc_comment,         \* its argument
  rc_result           \* its return value

vars ==
  <<praw_installed, argc, environ, pc, comment_sort, comment_limit_env, comment_limit, reddit,
    submission, submission_title, submission_selftext, listing, i, comments,
    taken, payload, stdout, stderr, exit_code, rc_pc, rc_comment,
    rc_result>>

locals ==
  <<comment_sort, comment_limit_env, comment_limit, submission_title,
    submission_selftext, listing, i, comments, taken, payload>>

\* render_comment's stand-alone variables, untouched by main().
rcvars == <<rc_pc, rc_comment, rc_result>>

\* a or b
Or(a, b) == IF Truthy(a) THEN a ELSE b

\* os.environ.get(name, default)
environ_get_default(env, name, default) ==
  IF env[name] = PyNone THEN default ELSE env[name]

DependencyLine == "Missing dependency: praw. Install with pip install praw."

UsageLine == "Usage: fetch_reddit.py <url>"

ConfigLine ==
  "Missing REDDIT_CLIENT_ID or REDDIT_CLIENT_SECRET environment variables."

\* Line 31 with "and" in place of "or".
MissingCredentials_and(client_id, client_secret) ==
  ~Truthy(client_id) /\ ~Truthy(client_secret)

\* Line 31: not client_id or not client_secret
MissingCredentials(client_id, client_secret) ==
  ~Truthy(client_id) \/ ~Truthy(client_secret)

\* Line 51 with "is not None" in place of the truth test.
BodyTest_not_none(comment) == getattr(comment, "body", PyNone) # PyNone

\* Line 51: getattr(comment, "body", None)
BodyTest(comment) == Truthy(getattr(comment, "body", PyNone))

\* Line 53 with "comment_limit is not None" in place of the truth test.
LimitReached_not_none(limit, list) == limit # PyNone /\ Len(list) >= limit.v

\* Line 53 with ">" in place of ">=".
LimitReached_gt(limit, list) == Truthy(limit) /\ Len(list) > limit.v

\* Line 53: comment_limit and len(comments) >= comment_limit
LimitReached(limit, list) == Truthy(limit) /\ Len(list) >= limit.v

\* What the interpreter writes to standard error for an exception nobody
\* catches: the heading, one line per stack frame (at least the module's
\* and main()'s), the exception.
Traceback(frames) ==
  <<"Traceback (most recent call last):">>
    \o [f \in 1..frames |-> "  File ..., line ..., in ..."]
    \o <<"Error: ...">>

\* The statements of main() that call into the external data source.
RaisingSteps ==
  {"l35", "l42", "l45", "l46", "l48", "l50", "l56"}

\* json.dumps(value) of one payload value.
JsonOf(v) ==
  CASE v.k = "str" -> [t |-> "string", v |-> v.v]
    [] v.k = "int" -> [t |-> "number", v |-> IntToStr(v.v)]
    [] v.k = "none" -> [t |-> "null"]

\* json.dumps(payload): one line holding one JSON object, key by key.
json_dumps(p) ==
  [title |-> JsonOf(p.title),
   selftext |-> JsonOf(p.selftext),
   comments |-> [t |-> "array", v |-> [n \in 1..Len(p.comments) |->
                                        [t |-> "string", v |-> p.comments[n]]]],
   permalink |-> JsonOf(p.permalink),
   score |-> JsonOf(p.score),
   subreddit |-> JsonOf(p.subreddit),
   author |-> JsonOf(p.author),
   comment_count |-> JsonOf(p.comment_count)]

\* -------------------------------------------------------------------- Init
\* The process has started: argv and the environment are fixed, nothing has
\* run.  render_comment's stand-alone variables are idle.
Init ==
  /\ praw_installed \in BOOLEAN
  /\ argc \in {1, 2}
  /\ environ \in [REDDIT_CLIENT_ID : CredentialValues,
                  REDDIT_CLIENT_SECRET : CredentialValues,
                  REDDIT_COMMENT_SORT : SortEnvValues,
                  REDDIT_COMMENT_LIMIT : LimitEnvValues]
  /\ pc = "l7"
  /\ comment_sort = PyNone
  /\ comment_limit_env = PyNone
  /\ comment_limit = PyNone
  /\ reddit = FALSE
  /\ submission = PyNone
  /\ submission_title = PyNone
  /\ submission_selftext = PyNone
  /\ listing = <<>>
  /\ i = 0
  /\ comments = <<>>
  /\ taken = <<>>
  /\ payload = PyNone
  /\ stdout = <<>>
  /\ stderr = <<>>
  /\ exit_code = PyNone
  /\ rc_pc = "idle"
  /\ rc_comment = PyNone
  /\ rc_result = <<>>

\* ----------------------------------------------------------------- actions
\* Lines 6-10: praw cannot be imported.
MissingDependency ==
  /\ pc = "l7"
  /\ ~praw_installed
  /\ stderr' = Append(stderr, DependencyLine)
  /\ exit_code' = PyInt(1)
  /\ pc' = "exit"
  /\ UNCHANGED <<praw_installed, argc, environ, locals, reddit, submission,
                 stdout, rcvars>>

\* Lines 6-7, 83-84: praw is imported and main() is called.
ImportPraw ==
  /\ pc = "l7"
  /\ praw_installed
  /\ pc' = "l14"
  /\ UNCHANGED <<praw_installed, argc, environ, locals, reddit, submission,
                 stdout, stderr, exit_code, rcvars>>

\* Lines 14-16: no URL argument.
UsageError ==
  /\ pc = "l14"
  /\ argc < 2
  /\ stderr' = Append(stderr, UsageLine)
  /\ exit_code' = PyInt(1)
  /\ pc' = "exit"
  /\ UNCHANGED <<praw_installed, argc, environ, locals, reddit, submission, stdout, rcvars>>

\* Lines 14, 18-29: the argument is there; read the environment and parse
\* the comment limit.
ReadEnvironment ==
  /\ pc = "l14"
  /\ ~(argc < 2)
  /\ comment_sort' =
       environ_get_default(environ, "REDDIT_COMMENT_SORT",
                           PyStr(<<"c", "o", "n", "f", "i", "d", "e", "n", "c", "e">>))
  /\ comment_limit_env' = environ_get(environ, "REDDIT_COMMENT_LIMIT")
  /\ comment_limit' = ParseCommentLimit(comment_limit_env')
  /\ pc' = "l31"
  /\ UNCHANGED <<praw_installed, argc, environ, reddit, submission, submission_title,
                 submission_selftext, listing, i, comments, taken, payload,
                 stdout, stderr, exit_code, rcvars>>

\* Lines 31-33 without the sys.exit(1): the message is written and main()
\* goes on.
ConfigurationError_no_exit ==
  /\ pc = "l31"
  /\ MissingCredentials(environ_get(environ, "REDDIT_CLIENT_ID"),
                        environ_get(environ, "REDDIT_CLIENT_SECRET"))
  /\ stderr' = Append(stderr, ConfigLine)
  /\ pc' = "l35"
  /\ UNCHANGED <<praw_installed, argc, environ, locals, reddit, submission,
                 stdout, exit_code, rcvars>>

\* Lines 31-33: a credential is missing.
ConfigurationError ==
  /\ pc = "l31"
  /\ MissingCredentials(environ_get(environ, "REDDIT_CLIENT_ID"),
                        environ_get(environ, "REDDIT_CLIENT_SECRET"))
  /\ stderr' = Append(stderr, ConfigLine)
  /\ exit_code' = PyInt(1)
  /\ pc' = "exit"
  /\ UNCHANGED <<praw_installed, argc, environ, locals, reddit, submission, stdout, rcvars>>

\* Line 31: both credentials are there; go on to line 35.
CredentialsPresent ==
  /\ pc = "l31"
  /\ ~MissingCredentials(environ_get(environ, "REDDIT_CLIENT_ID"),
                         environ_get(environ, "REDDIT_CLIENT_SECRET"))
  /\ pc' = "l35"
  /\ UNCHANGED <<praw_installed, argc, environ, locals, reddit, submission, stdout, stderr,
                 exit_code, rcvars>>

\* Lines 35-40: praw.Reddit(...) returns.
ConstructClient ==
  /\ pc = "l35"
  /\ reddit' = TRUE
  /\ pc' = "l42"
  /\ UNCHANGED <<praw_installed, argc, environ, locals, submission, stdout, stderr, exit_code,
                 rcvars>>

\* Line 42: reddit.submission(url=url) returns the submission object; no
\* attribute of it has been read yet.
RequestSubmission ==
  /\ pc = "l42"
  /\ submission' = [comment_sort |-> PyAbsent, expanded |-> FALSE,
                    data |-> PyNone]
  /\ pc' = "l43"
  /\ UNCHANGED <<praw_installed, argc, environ, locals, reddit, stdout, stderr, exit_code,
                 rcvars>>

\* Line 43 left out: the sort mode is never set.
SetCommentSort_skipped ==
  /\ pc = "l43"
  /\ pc' = "l45"
  /\ UNCHANGED <<praw_installed, argc, environ, locals, reddit, submission,
                 stdout, stderr, exit_code, rcvars>>

\* Line 43: submission.comment_sort = comment_sort
SetCommentSort ==
  /\ pc = "l43"
  /\ submission' = [submission EXCEPT !.comment_sort = comment_sort]
  /\ pc' = "l45"
  /\ UNCHANGED <<praw_installed, argc, environ, locals, reddit, stdout, stderr, exit_code,
                 rcvars>>

\* Line 45: submission.title is the first attribute read: what the
\* external source holds for the submission is drawn here.
ReadTitle ==
  /\ pc = "l45"
  /\ \E s \in SubmissionPool :
       /\ submission' = [submission EXCEPT !.data = s]
       /\ submission_title' = Or(s.title, PyStr(<<>>))
  /\ pc' = "l46"
  /\ UNCHANGED <<praw_installed, argc, environ, comment_sort, comment_limit_env, comment_limit,
                 reddit, submission_selftext, listing, i, comments, taken,
                 payload, stdout, stderr, exit_code, rcvars>>

\* Lines 46-47: submission_selftext = submission.selftext or ""; comments = []
ReadSelftext ==
  /\ pc = "l46"
  /\ submission_selftext' = Or(submission.data.selftext, PyStr(<<>>))
  /\ comments' = <<>>
  /\ pc' = "l48"
  /\ UNCHANGED <<praw_installed, argc, environ, comment_sort, comment_limit_env, comment_limit,
                 reddit, submission, submission_title, listing, i, taken,
                 payload, stdout, stderr, exit_code, rcvars>>

\* Line 48: submission.comments.replace_more(limit=None) returns.
ReplaceMore ==
  /\ pc = "l48"
  /\ submission' = [submission EXCEPT !.expanded = TRUE]
  /\ pc' = "l50"
  /\ UNCHANGED <<praw_installed, argc, environ, locals, reddit, stdout, stderr, exit_code,
                 rcvars>>

\* Line 50: submission.comments.list() returns the flattened sequence.
ListComments ==
  /\ pc = "l50"
  /\ \E cs \in CommentLists : listing' = cs
  /\ i' = 1
  /\ pc' = "loop"
  /\ UNCHANGED <<praw_installed, argc, environ, comment_sort, comment_limit_env, comment_limit,
                 reddit, submission, submission_title, submission_selftext,
                 comments, taken, payload, stdout, stderr, exit_code, rcvars>>

\* Lines 50-51: the next comment has no body text; go to the one after.
LoopSkip ==
  /\ pc = "loop"
  /\ i <= Len(listing)
  /\ ~BodyTest(listing[i])
  /\ i' = i + 1
  /\ UNCHANGED <<praw_installed, argc, environ, pc, comment_sort, comment_limit_env,
                 comment_limit, reddit, submission, submission_title,
                 submission_selftext, listing, comments, taken, payload,
                 stdout, stderr, exit_code, rcvars>>

\* Lines 50-54: the next comment has body text; render and append it, then
\* break when the limit is reached.
LoopAppend ==
  /\ pc = "loop"
  /\ i <= Len(listing)
  /\ BodyTest(listing[i])
  /\ comments' = Append(comments, render_comment(listing[i]))
  /\ taken' = Append(taken, i)
  /\ IF LimitReached(comment_limit, comments')
     THEN pc' = "l56" /\ i' = i
     ELSE pc' = pc /\ i' = i + 1
  /\ UNCHANGED <<praw_installed, argc, environ, comment_sort, comment_limit_env, comment_limit,
                 reddit, submission, submission_title, submission_selftext,
                 listing, payload, stdout, stderr, exit_code, rcvars>>

\* Line 50: the list is exhausted.
LoopExhausted ==
  /\ pc = "loop"
  /\ i > Len(listing)
  /\ pc' = "l56"
  /\ UNCHANGED <<praw_installed, argc, environ, locals, reddit, submission, stdout, stderr,
                 exit_code, rcvars>>

\* Lines 56-65: the five attributes of the submission are read and the
\* dict is built.
BuildPayload ==
  /\ pc = "l56"
  /\ payload' =
       [title |-> submission_title,
        selftext |-> submission_selftext,
        comments |-> comments,
        permalink |-> submission.data.permalink,
        score |-> submission.data.score,
        subreddit |-> PyStr(PyFormat(submission.data.subreddit)),
        author |-> IF Truthy(submission.data.author)
                   THEN PyStr(PyFormat(submission.data.author))
                   ELSE PyNone,
        comment_count |-> submission.data.num_comments]
  /\ pc' = "l67"
  /\ UNCHANGED <<praw_installed, argc, environ, comment_sort, comment_limit_env, comment_limit,
                 reddit, submission, submission_title, submission_selftext,
                 listing, i, comments, taken, stdout, stderr, exit_code,
                 rcvars>>

\* Lines 67, 84: print(json.dumps(payload)); main() returns and the
\* interpreter exits with status 0.
PrintPayload ==
  /\ pc = "l67"
  /\ stdout' = Append(stdout, json_dumps(payload))
  /\ exit_code' = PyInt(0)
  /\ pc' = "exit"
  /\ UNCHANGED <<praw_installed, argc, environ, locals, reddit, submission, stderr, rcvars>>

\* The exception caught at the top level, reported, and the process left
\* to end normally with status 0.
RaiseUncaught_swallowed ==
  /\ pc \in RaisingSteps
  /\ stderr' = Append(stderr, "Error: ...")
  /\ exit_code' = PyInt(0)
  /\ pc' = "exit"
  /\ UNCHANGED <<praw_installed, argc, environ, locals, reddit, submission,
                 stdout, rcvars>>

\* A call into the external data source raises.  main() has no try block
\* around it (lines 35-64) and neither has the module (lines 83-84): the
\* interpreter writes the traceback to standard error and exits with 1.
RaiseUncaught ==
  /\ pc \in RaisingSteps
  /\ \E frames \in 2..MaxFrames : stderr' = stderr \o Traceback(frames)
  /\ exit_code' = PyInt(1)
  /\ pc' = "exit"
  /\ UNCHANGED <<praw_installed, argc, environ, locals, reddit, submission, stdout, rcvars>>

Next ==
  \/ MissingDependency
  \/ ImportPraw
  \/ UsageError
  \/ ReadEnvironment
  \/ ConfigurationError
  \/ CredentialsPresent
  \/ ConstructClient
  \/ RequestSubmission
  \/ SetCommentSort
  \/ ReadTitle
  \/ ReadSelftext
  \/ ReplaceMore
  \/ ListComments
  \/ LoopSkip
  \/ LoopAppend
  \/ LoopExhausted
  \/ BuildPayload
  \/ PrintPayload
  \/ RaiseUncaught

Spec == Init /\ [][Next]_vars

\* ------------------------------------------ render_comment called alone
BodyAlphabet == {"x", " ", "\n"}

\* The comments render_comment is applied to: author deleted or named,
\* score missing, None or a number, depth missing or 0..MaxDepth, body
\* missing or any text over BodyAlphabet.
RenderInputs ==
  [author : {PyNone, PyStr(<<"a", "l">>)},
   score : {PyAbsent, PyNone, PyInt(-3), PyInt(0), PyInt(5), PyInt(12)},
   depth : {PyAbsent} \cup {PyInt(d) : d \in 0..MaxDepth},
   body : {PyAbsent} \cup {PyStr(t) : t \in Texts(BodyAlphabet, MaxBodyLen)}]

InitRender ==
  /\ praw_installed = TRUE
  /\ argc = 1
  /\ environ = [REDDIT_CLIENT_ID |-> PyNone, REDDIT_CLIENT_SECRET |-> PyNone,
                REDDIT_COMMENT_SORT |-> PyNone, REDDIT_COMMENT_LIMIT |-> PyNone]
  /\ pc = "idle"
  /\ comment_sort = PyNone
  /\ comment_limit_env = PyNone
  /\ comment_limit = PyNone
  /\ reddit = FALSE
  /\ submission = PyNone
  /\ submission_title = PyNone
  /\ submission_selftext = PyNone
  /\ listing = <<>>
  /\ i = 0
  /\ comments = <<>>
  /\ taken = <<>>
  /\ payload = PyNone
  /\ stdout = <<>>
  /\ stderr = <<>>
  /\ exit_code = PyNone
  /\ rc_pc = "call"
  /\ rc_comment \in RenderInputs
  /\ rc_result = <<>>

\* Lines 70-80: render_comment(rc_comment) returns.
RenderCall ==
  /\ rc_pc = "call"
  /\ rc_result' = render_comment(rc_comment)
  /\ rc_pc' = "return"
  /\ UNCHANGED <<praw_installed, argc, environ, pc, locals, reddit, submission, stdout, stderr,
                 exit_code, rc_comment>>

NextRender == RenderCall

SpecRender == InitRender /\ [][NextRender]_vars

\* =================================================================== claims
\* ----------------------------------------------- reading a rendered text
\* Position of the first newline of text, Len(text) + 1 when it has none.
FirstNewline(text) ==
  IF \E j \in 1..Len(text) : text[j] = "\n"
  THEN CHOOSE j \in 1..Len(text) :
         text[j] = "\n" /\ \A m \in 1..(j - 1) : text[m] # "\n"
  ELSE Len(text) + 1

FirstLine(text) == SubSeq(text, 1, FirstNewline(text) - 1)

AfterFirstLine(text) == SubSeq(text, FirstNewline(text) + 1, Len(text))

RECURSIVE LinesOf(_)
LinesOf(text) ==
  IF FirstNewline(text) > Len(text) THEN <<text>>
  ELSE <<FirstLine(text)>> \o LinesOf(AfterFirstLine(text))

\* Number of space characters text starts with.
LeadingSpaces(text) ==
  Cardinality({j \in 1..Len(text) : \A m \in 1..j : text[m] = " "})

Spaces(n) == [j \in 1..n |-> " "]

\* The depth, body and score a comment exposes, read off the record.
DepthOf(c) == IF c.depth.k = "int" THEN c.depth.v ELSE 0

BodyTextOf(c) == IF c.body.k = "str" THEN c.body.v ELSE <<>>

ScoreAvailable(c) == c.score.k = "int"

\* The decimal text of the scores drawn, written out.
ScoreText(n) ==
  CASE n = -3 -> <<"-", "3">>
    [] n = 0 -> <<"0">>
    [] n = 5 -> <<"5">>
    [] n = 12 -> <<"1", "2">>

\* C7: the header line of render_comment's result, after the indentation,
\* is "u/" + name for a comment with an author and "[deleted]" for one
\* without, followed by " (score: N)" exactly when the comment has a score
\* (0 included) and by nothing otherwise, so it never ends in a space; a
\* deleted author raises nothing (the call returns).
C7_HeaderLine ==
  rc_pc = "return" =>
    LET line == FirstLine(rc_result)
        header == SubSeq(line, 2 * DepthOf(rc_comment) + 1, Len(line))
        label == IF rc_comment.author.k = "str"
                 THEN <<"u", "/">> \o rc_comment.author.v
                 ELSE <<"[", "d", "e", "l", "e", "t", "e", "d", "]">>
        suffix == IF ScoreAvailable(rc_comment)
                  THEN <<" ", "(", "s", "c", "o", "r", "e", ":", " ">>
                         \o ScoreText(rc_comment.score.v) \o <<")">>
                  ELSE <<>>
    IN /\ header = label \o suffix
       /\ header[Len(header)] # " "

\* C7 witness: a comment with a deleted author and a score of 0 was rendered.
C7_Witness ==
  /\ rc_pc = "return"
  /\ rc_comment.author = PyNone
  /\ rc_comment.score = PyInt(0)
  /\ FirstLine(rc_result) # <<>>

\* C8 as stated: every line of the rendered text, header and body lines
\* alike, starts with exactly 2*depth spaces.
C8_EveryLineIndented ==
  rc_pc = "return" =>
    \A n \in 1..Len(LinesOf(rc_result)) :
      LeadingSpaces(LinesOf(rc_result)[n]) = 2 * DepthOf(rc_comment)

\* C8 amended: the header line starts with exactly 2*depth spaces, and what
\* follows the header line is 2*depth spaces and then the body verbatim; so
\* the first body line has exactly 2*depth leading spaces when the body does
\* not itself start with a space, and the later lines of a body of several
\* lines are not indented.
C8_IndentPrefixed ==
  rc_pc = "return" =>
    LET d == DepthOf(rc_comment)
        body == BodyTextOf(rc_comment)
        rest == AfterFirstLine(rc_result)
    IN /\ LeadingSpaces(FirstLine(rc_result)) = 2 * d
       /\ rest = Spaces(2 * d) \o body
       /\ (body = <<>> \/ body[1] # " ") =>
            LeadingSpaces(FirstLine(rest)) = 2 * d
       /\ \A n \in 2..Len(LinesOf(body)) :
            LinesOf(rest)[n] = LinesOf(body)[n]

\* C8 witness: a comment at depth 2 whose body has several lines was
\* rendered.
C8_Witness ==
  /\ rc_pc = "return"
  /\ DepthOf(rc_comment) = 2
  /\ Len(LinesOf(BodyTextOf(rc_comment))) > 1
  /\ Len(rc_result) > 4

\* ------------------------------------------------------ reading a run
\* A comment that has body text: a body attribute holding a non-empty str.
HasBodyText(c) == c.body.k = "str" /\ c.body.v # <<>>

\* The comments of a sequence that have body text, in order.
WithBodyText(cs) == SelectSeq(cs, HasBodyText)

Rendered(cs) == [n \in 1..Len(cs) |-> render_comment(cs[n])]

Min(a, b) == IF a <= b THEN a ELSE b

LimitText == environ.REDDIT_COMMENT_LIMIT

\* REDDIT_COMMENT_LIMIT is set to text that int() accepts.
LimitParses == LimitText.k = "str" /\ LimitText.v # <<>> /\ int(LimitText.v).ok

LimitValue == int(LimitText.v).val

CredentialMissing(v) == v = PyNone \/ v = PyStr(<<>>)

\* The run has no URL argument or lacks a credential.
InvalidInvocation ==
  \/ argc < 2
  \/ CredentialMissing(environ.REDDIT_CLIENT_ID)
  \/ CredentialMissing(environ.REDDIT_CLIENT_SECRET)

Succeeded == pc = "exit" /\ exit_code = PyInt(0)

PayloadKeys ==
  {"title", "selftext", "comments", "permalink", "score", "subreddit",
   "author", "comment_count"}

\* C1 as stated: a successful run ends with at most L comments when the
\* limit parses to a positive L, and with every comment that has body text
\* in every other case (unset, empty, non-numeric, zero or negative).
C1_CountWithinLimit ==
  Succeeded =>
    IF LimitParses /\ LimitValue > 0
    THEN Len(payload.comments) <= LimitValue
    ELSE Len(payload.comments) = Len(WithBodyText(listing))

\* C2: every entry of comments, at every point of the loop and in the
\* payload, is the rendering of a comment of the list that has body text
\* (a body attribute, not None, not empty), whatever the limit.
C2_OnlyBodyText ==
  /\ Len(taken) = Len(comments)
  /\ \A n \in 1..Len(taken) :
       /\ taken[n] \in 1..Len(listing)
       /\ HasBodyText(listing[taken[n]])
       /\ comments[n] = render_comment(listing[taken[n]])
  /\ payload # PyNone => payload.comments = comments

\* C2 witness: a run has ended in which a comment without body text sat
\* between two rendered ones, one came before and one after them.
C2_Witness ==
  /\ Succeeded
  /\ \E a, b, c \in 1..Len(listing) :
       /\ a < b /\ b < c
       /\ ~HasBodyText(listing[b])
       /\ \E m, n \in 1..Len(taken) : taken[m] = a /\ taken[n] = c

\* C3: a run that has ended has either exit code 0 and exactly one line on
\* standard output, a JSON object with the eight payload keys, or exit code
\* 1 and nothing on standard output; before the end nothing is on standard
\* output, and a failure of the external source ends with exit code 1.
C3_AllOrNothing ==
  /\ pc # "exit" => stdout = <<>> /\ exit_code = PyNone
  /\ pc = "exit" =>
       \/ /\ exit_code = PyInt(0)
          /\ Len(stdout) = 1
          /\ DOMAIN stdout[1] = PayloadKeys
          /\ stdout[1].comments.t = "array"
       \/ /\ exit_code = PyInt(1)
          /\ stdout = <<>>
  /\ Len(stderr) > 1 => exit_code = PyInt(1) /\ stdout = <<>>

\* C3 witness: the external source failed after comments had been rendered.
C3_Witness ==
  /\ pc = "exit"
  /\ exit_code = PyInt(1)
  /\ comments # <<>>
  /\ stdout = <<>>

\* C4: a run without URL argument or without one of the credentials writes
\* nothing to standard output, never touches the external source, keeps
\* running until it has exited, and exits with code 1, whatever
\* REDDIT_COMMENT_LIMIT holds.
C4_InvalidInvocation ==
  InvalidInvocation =>
    /\ stdout = <<>>
    /\ pc \in {"l7", "l14", "l31", "exit"}
    /\ pc # "exit" => ENABLED Next
    /\ pc = "exit" => exit_code = PyInt(1)

\* C4 witness: a run with the URL and the client id but an empty secret,
\* and a limit that is not a number, has exited.
C4_Witness ==
  /\ pc = "exit"
  /\ argc = 2
  /\ ~CredentialMissing(environ.REDDIT_CLIENT_ID)
  /\ environ.REDDIT_CLIENT_SECRET = PyStr(<<>>)
  /\ LimitText = PyStr(<<"-", "x">>)

\* C5 as stated: every run that ends with a non-zero exit code has written
\* exactly one diagnostic line to standard error.
C5_OneLineEach == pc = "exit" /\ exit_code # PyInt(0) => Len(stderr) = 1

\* C5 amended: a usage error and a configuration error each write exactly
\* one line to standard error and exit at once with code 1; a failure of
\* the external source is not caught, so the interpreter writes a traceback
\* of several lines and exits with code 1.  Whatever is written to standard
\* error is written by the step that ends the run, and nothing runs after
\* the exit: no retry, no recovery.
C5_Diagnostics ==
  /\ [](pc = "exit" /\ exit_code # PyInt(0) /\ praw_installed =>
          /\ exit_code = PyInt(1)
          /\ IF argc < 2 THEN stderr = <<UsageLine>>
             ELSE IF \/ CredentialMissing(environ.REDDIT_CLIENT_ID)
                     \/ CredentialMissing(environ.REDDIT_CLIENT_SECRET)
             THEN stderr = <<ConfigLine>>
             ELSE /\ Len(stderr) > 1
                  /\ stderr[1] = "Traceback (most recent call last):")
  /\ [][stderr' # stderr => pc' = "exit" /\ exit_code' = PyInt(1)]_vars
  /\ [][pc # "exit"]_vars

\* C5 witness: the external source failed and the traceback is on standard
\* error.
C5_Witness ==
  /\ pc = "exit"
  /\ reddit = TRUE
  /\ exit_code = PyInt(1)
  /\ Len(stderr) > 1

\* REDDIT_COMMENT_LIMIT is unset, empty, not a number, or a number that is 0.
LimitIgnored ==
  \/ LimitText = PyNone
  \/ LimitText.v = <<>>
  \/ ~int(LimitText.v).ok
  \/ int(LimitText.v).val = 0

\* C6: with REDDIT_COMMENT_LIMIT unset, empty, not a number or parsing to 0,
\* parsing raises nothing and applies no limit, and a run the external
\* source does not fail ends with exit code 0 and a comments list that is
\* the rendering of every comment with body text: the result is a function
\* of the submission and the comment sequence alone, the same for each of
\* these settings, the unset one among them.
C6_LimitIgnored ==
  /\ pc = "l31" /\ LimitIgnored =>
       /\ comment_limit \in {PyNone, PyInt(0)}
       /\ stderr = <<>>
       /\ exit_code = PyNone
  /\ pc = "exit" /\ reddit /\ stderr = <<>> /\ LimitIgnored =>
       LET all == Rendered(WithBodyText(listing))
       IN /\ exit_code = PyInt(0)
          /\ payload.comments = all
          /\ stdout[1].comments.v =
               [n \in 1..Len(all) |-> [t |-> "string", v |-> all[n]]]

\* C6 witness: a run with the limit set to "0" has printed two comments or
\* more.
C6_Witness ==
  /\ Succeeded
  /\ LimitText = PyStr(<<"0">>)
  /\ Len(payload.comments) >= 2

\* The indices of the comments of the list that have body text, in order.
BodyTextIndices ==
  SelectSeq([j \in 1..Len(listing) |-> j], LAMBDA j : HasBodyText(listing[j]))

\* main() applies a positive limit: comment_limit is an int greater than 0.
PositiveLimit == comment_limit.k = "int" /\ comment_limit.v > 0

\* C9: with a positive limit L the final list is the renderings of the
\* first min(L, n) comments with body text, in source order; when the list
\* reaches length L the loop has stopped at that comment, and neither the
\* list nor the loop position changes afterwards.  With no limit applied
\* (REDDIT_COMMENT_LIMIT unset, empty, not a number or 0) the final list is
\* the renderings of all n.
C9_FirstInOrder ==
  /\ [](Succeeded /\ (PositiveLimit \/ LimitIgnored) =>
          LET n == Len(BodyTextIndices)
              k == IF PositiveLimit THEN Min(comment_limit.v, n) ELSE n
          IN /\ taken = SubSeq(BodyTextIndices, 1, k)
             /\ payload.comments = Rendered(SubSeq(WithBodyText(listing), 1, k)))
  /\ [](PositiveLimit /\ Len(comments) >= comment_limit.v =>
          /\ pc # "loop"
          /\ Len(comments) = comment_limit.v
          /\ i = taken[comment_limit.v])
  /\ [][PositiveLimit /\ Len(comments) >= comment_limit.v =>
          comments' = comments /\ i' = i]_vars

\* C9 witness: a run with limit 2 over three comments with body text has
\* printed two.
C9_Witness ==
  /\ Succeeded
  /\ comment_limit = PyInt(2)
  /\ Len(WithBodyText(listing)) = 3
  /\ Len(payload.comments) = 2

StepOrder ==
  <<"l7", "l14", "l31", "l35", "l42", "l43", "l45", "l46", "l48", "l50",
    "loop", "l56", "l67", "exit">>

Rank(p) == CHOOSE k \in 1..Len(StepOrder) : StepOrder[k] = p

\* C10: the steps run in the one fixed order; the client is not constructed
\* and no submission requested in a run without URL argument or without a
\* credential; the client exists before the submission is requested; the
\* sort mode is set before the comments are expanded; expansion is complete
\* before anything is listed or rendered; the payload exists only once the
\* loop is over; standard output is written at most once, by the last step.
C10_FixedOrder ==
  /\ [](InvalidInvocation => reddit = FALSE /\ submission = PyNone)
  /\ [](submission # PyNone =>
          /\ reddit
          /\ submission.expanded \/ submission.data # PyNone =>
               submission.comment_sort # PyAbsent
          /\ listing # <<>> \/ comments # <<>> \/ pc = "loop" =>
               submission.expanded)
  /\ [](payload # PyNone => pc \in {"l67", "exit"})
  /\ [](Len(stdout) <= 1 /\ (stdout # <<>> => pc = "exit" /\ payload # PyNone))
  /\ [][\/ Rank(pc') > Rank(pc)
        \/ pc = "loop" /\ pc' = "loop" /\ i' = i + 1]_vars

\* C10 witness: a run has gone through every step and printed comments.
C10_Witness ==
  /\ Succeeded
  /\ submission.expanded
  /\ comments # <<>>
  /\ Len(stdout) = 1

====
